---- MODULE Spec2Model ----
(***************************************************************************)
(* BlindMatch, pull variant (8-bit interest bitmaps, CoFHE decryption      *)
(* polled with getDecryptResultSafe).  Every external function of the      *)
(* contract is one action.  The require statements of a function are the   *)
(* operator <function>Error, which yields the revert reason of the first   *)
(* require that fails, or OK; the action is enabled when it yields OK.  A  *)
(* reverted call restores the storage and emits nothing, so it is no step. *)
(*                                                                         *)
(* Ciphertexts are modelled by the plaintext they encrypt (the fields      *)
(* interestsBitmap, similarityScore, isMatchEncrypted); nothing in the     *)
(* contract reads them except through the FHE operations below.  The       *)
(* decryption network is the variable decryptTasks: FHE.decrypt files a    *)
(* task for a ciphertext, DecryptionReady resolves it out of band, and     *)
(* FHE.getDecryptResultSafe reports ready only for a resolved task.        *)
(* A request id is keccak256(requester, target, timestamp, number); the    *)
(* hash is modelled by the tuple of its arguments.                         *)
(***************************************************************************)
EXTENDS Integers, Sequences, FiniteSets, TLC

\* ---------------------------------------------------------------- bounds
\* highest block number the chain reaches in the model
MaxBlock == 2
\* number of successful similarity calculations in a behaviour
MaxCalc == 1

\* ------------------------------------------------------------- constants
MATCH_THRESHOLD == 3

\* the msg.sender values that call the contract
Users == {"alice", "bob", "charlie"}
\* the users that register a profile; charlie calls the contract as an outsider
Registrants == {"alice", "bob"}
\* plaintexts of the interest bitmaps a user encrypts and submits:
\* 7 and 7 share three interests (a match), 7 and 1 share one (no match)
Bitmaps(user) == IF user = "alice" THEN {7} ELSE {1, 7}
ZeroAddress == "0x0"
\* a bytes32 that no calculation has produced
UnknownId == <<ZeroAddress, ZeroAddress, 0, 0>>

\* revert reasons, as the require statements spell them
OK == "ok"
AlreadyExists == "Profile already exists"
NotRegistered == "User not registered"
TargetNotFound == "Target user does not exist"
SelfMatchForbidden == "Cannot match with yourself"
AlreadyMatched == "Users already matched"
NotFound == "Match calculation not found"
MatchAlreadyDecrypted == "Match already decrypted"
ScoreAlreadyDecrypted == "Score already decrypted"
Unauthorized == "Only involved parties can decrypt"
MatchAlreadyProcessed == "Match already processed"
ScoreAlreadyProcessed == "Score already processed"
NotReady == "Decryption not ready yet"
AlreadyMatchedWithUser == "Already matched with this user"
NoTargets == "No targets provided"
TooManyTargets == "Too many targets"

VARIABLES
    profiles,       \* mapping(address => UserProfile)
    matchRequests,  \* mapping(bytes32 => MatchRequest), on the ids written so far
    allUsers,       \* address[]
    decryptTasks,   \* per request id and half: "none", "requested" or "ready"
    blockNumber,    \* block.number; block.timestamp advances with it
    submitted,      \* history: users whose last successful profile call was submitProfile
    everMatched,    \* history: pairs for which a match finalize has revealed true
    liveMatched,    \* history: pairs matched while both had a profile, no delete since
    nCalc,          \* history: number of successful similarity calculations
    events,         \* the events the calculations emitted so far, in order
    oracle,         \* oracle variant: address public oracle
    pendingDecryptions  \* oracle variant: mapping(uint256 => bytes32)

vars == <<profiles, matchRequests, allUsers, decryptTasks, blockNumber,
          submitted, everMatched, liveMatched, nCalc, events, oracle, pendingDecryptions>>

storage == <<profiles, matchRequests, allUsers>>

\* ------------------------------------------------------------ data types
\* the value of profiles[user] for a key never written, and after delete
NoProfile ==
    [exists |-> FALSE, interestsBitmap |-> 0, matches |-> <<>>, profileCreatedAt |-> 0]

\* the value of matchRequests[id] for a key never written
NoRequest ==
    [requester |-> ZeroAddress, target |-> ZeroAddress, similarityScore |-> 0,
     scoreDecrypted |-> FALSE, decryptedScore |-> 0, processed |-> FALSE,
     timestamp |-> 0, isMatchEncrypted |-> FALSE, matchDecrypted |-> FALSE,
     isMatch |-> FALSE]

NoTasks == [score |-> "none", match |-> "none"]

\* block.timestamp of the block with this number (strictly increasing)
blockTimestamp(n) == n

\* storage read profiles[user], for any address
profileAt(user) == IF user \in DOMAIN profiles THEN profiles[user] ELSE NoProfile

\* storage read matchRequests[requestId]
matchRequestAt(requestId) ==
    IF requestId \in DOMAIN matchRequests THEN matchRequests[requestId] ELSE NoRequest

\* state of the decryption task of one half of a request's ciphertexts
taskAt(requestId, half) ==
    IF requestId \in DOMAIN decryptTasks THEN decryptTasks[requestId][half] ELSE "none"

\* ------------------------------------------------------------ FHE engine
\* bitwise AND of two 8-bit values
RECURSIVE BitAnd(_, _, _)
BitAnd(a, b, n) ==
    IF n = 0 THEN 0
    ELSE (IF a % 2 = 1 /\ b % 2 = 1 THEN 1 ELSE 0) + 2 * BitAnd(a \div 2, b \div 2, n - 1)

RECURSIVE Pow2(_)
Pow2(i) == IF i = 0 THEN 1 ELSE 2 * Pow2(i - 1)

\* the loop of _countSetBits from iteration i on, count being the running sum
RECURSIVE countSetBitsFrom(_, _, _)
countSetBitsFrom(value, i, count) ==
    IF i >= 8 THEN count
    ELSE LET bitMask == Pow2(i)
             bitValue == BitAnd(value, bitMask, 8)
             addValue == IF bitValue > 0 THEN 1 ELSE 0
         IN countSetBitsFrom(value, i + 1, (count + addValue) % 256)

countSetBits_SevenBits(value) == countSetBitsFrom(value % 128, 0, 0)

countSetBits(value) == countSetBitsFrom(value, 0, 0)

\* -------------------------------------------------------------- queries
hasProfile(user) == profiles[user].exists

isAlreadyMatched(user1, user2) ==
    \E i \in 1..Len(profiles[user1].matches) : profiles[user1].matches[i] = user2

\* getMatchCount(user), under its userExists modifier
getMatchCount(caller, user) ==
    IF ~profiles[user].exists THEN TargetNotFound ELSE Len(profiles[user].matches)

\* getMatchRequest(requestId) on the ledger `requests`: no modifier, and no
\* test of msg.sender
getMatchRequest(requests, caller, requestId) ==
    LET request == IF requestId \in DOMAIN requests THEN requests[requestId]
                   ELSE NoRequest
    IN [requester |-> request.requester, target |-> request.target,
        processed |-> request.processed, timestamp |-> request.timestamp,
        scoreDecrypted |-> request.scoreDecrypted,
        decryptedScore |-> request.decryptedScore,
        matchDecrypted |-> request.matchDecrypted,
        isMatch |-> request.isMatch]

getTotalUsers == Len(allUsers)

getAllUsers == allUsers

\* number of positions of a sequence holding x
Occurrences(s, x) == Cardinality({i \in 1..Len(s) : s[i] = x})

\* -------------------------------------------------------- profile store
submitProfileError_NoCheck(caller) == OK

\* the require of submitProfile
submitProfileError(caller) ==
    IF profiles[caller].exists THEN AlreadyExists ELSE OK

newProfile_NotExisting(bitmap, now) ==
    [exists |-> FALSE, interestsBitmap |-> bitmap, matches |-> <<>>,
     profileCreatedAt |-> now]

\* the UserProfile literal submitProfile stores
newProfile(bitmap, now) ==
    [exists |-> TRUE, interestsBitmap |-> bitmap, matches |-> <<>>,
     profileCreatedAt |-> now]

submitProfile(caller, bitmap) ==
    /\ submitProfileError(caller) = OK
    /\ profiles' = [profiles EXCEPT
                      ![caller] = newProfile(bitmap, blockTimestamp(blockNumber))]
    /\ allUsers' = Append(allUsers, caller)
    /\ submitted' = submitted \cup {caller}
    /\ UNCHANGED <<matchRequests, decryptTasks, blockNumber, everMatched,
                   liveMatched, nCalc, events, oracle, pendingDecryptions>>

\* index of the first occurrence of x in s, 0 when there is none
firstIndexOf(s, x) ==
    IF \E i \in 1..Len(s) : s[i] = x
    THEN CHOOSE i \in 1..Len(s) : s[i] = x /\ \A j \in 1..(i - 1) : s[j] # x
    ELSE 0

removeFromAllUsers_NoPop(users, user) ==
    LET i == firstIndexOf(users, user)
    IN IF i = 0 THEN users ELSE [users EXCEPT ![i] = users[Len(users)]]

\* the loop of deleteProfile: overwrite the first occurrence with the last
\* element, pop, stop
removeFromAllUsers(users, user) ==
    LET i == firstIndexOf(users, user)
    IN IF i = 0 THEN users
       ELSE SubSeq([users EXCEPT ![i] = users[Len(users)]], 1, Len(users) - 1)

\* the modifier onlyRegisteredUser of deleteProfile
deleteProfileError(caller) ==
    IF ~profiles[caller].exists THEN NotRegistered ELSE OK

deleteProfile_Cascading(caller) ==
    /\ deleteProfileError(caller) = OK
    /\ profiles' = [u \in DOMAIN profiles |->
                       IF u = caller THEN NoProfile
                       ELSE [profiles[u] EXCEPT !.matches =
                                SelectSeq(@, LAMBDA m : m # caller)]]
    /\ allUsers' = removeFromAllUsers(allUsers, caller)
    /\ submitted' = submitted \ {caller}
    /\ liveMatched' = {pair \in liveMatched : caller \notin pair}
    /\ UNCHANGED <<matchRequests, decryptTasks, blockNumber, everMatched, nCalc, events, oracle, pendingDecryptions>>

deleteProfile(caller) ==
    /\ deleteProfileError(caller) = OK
    /\ profiles' = [profiles EXCEPT ![caller] = NoProfile]
    /\ allUsers' = removeFromAllUsers(allUsers, caller)
    /\ submitted' = submitted \ {caller}
    /\ liveMatched' = {pair \in liveMatched : caller \notin pair}
    /\ UNCHANGED <<matchRequests, decryptTasks, blockNumber, everMatched, nCalc, events, oracle, pendingDecryptions>>

\* ---------------------------------------------------- similarity engine
calculateSimilarityError_TargetFirst(caller, targetUser) ==
    IF ~profiles[targetUser].exists THEN TargetNotFound
    ELSE IF ~profiles[caller].exists THEN NotRegistered
    ELSE IF targetUser = caller THEN SelfMatchForbidden
    ELSE IF isAlreadyMatched(caller, targetUser) THEN AlreadyMatched
    ELSE OK

\* the modifiers and requires of calculateSimilarity, in execution order
calculateSimilarityError(caller, targetUser) ==
    IF ~profiles[caller].exists THEN NotRegistered
    ELSE IF ~profiles[targetUser].exists THEN TargetNotFound
    ELSE IF targetUser = caller THEN SelfMatchForbidden
    ELSE IF isAlreadyMatched(caller, targetUser) THEN AlreadyMatched
    ELSE OK

\* keccak256(abi.encodePacked(requester, targetUser, block.timestamp, block.number))
requestIdOf(requester, targetUser, number) ==
    <<requester, targetUser, blockTimestamp(number), number>>

newMatchRequest_StalePlaintext(requester, targetUser, now) ==
    LET commonInterestsBitmap ==
            BitAnd(profiles[requester].interestsBitmap,
                   profiles[targetUser].interestsBitmap, 8)
        similarityScore == countSetBits(commonInterestsBitmap)
    IN [requester |-> requester, target |-> targetUser,
        similarityScore |-> similarityScore,
        scoreDecrypted |-> FALSE, decryptedScore |-> similarityScore,
        processed |-> TRUE, timestamp |-> now,
        isMatchEncrypted |-> (similarityScore >= MATCH_THRESHOLD),
        matchDecrypted |-> FALSE, isMatch |-> FALSE]

\* the MatchRequest literal _calculateSimilarity stores
newMatchRequest(requester, targetUser, now) ==
    LET commonInterestsBitmap ==
            BitAnd(profiles[requester].interestsBitmap,
                   profiles[targetUser].interestsBitmap, 8)
        similarityScore == countSetBits(commonInterestsBitmap)
    IN [requester |-> requester, target |-> targetUser,
        similarityScore |-> similarityScore,
        scoreDecrypted |-> FALSE, decryptedScore |-> 0, processed |-> TRUE,
        timestamp |-> now,
        isMatchEncrypted |-> (similarityScore >= MATCH_THRESHOLD),
        matchDecrypted |-> FALSE, isMatch |-> FALSE]

SimilarityCalculated_Swapped(user1, user2, requestId) ==
    [name |-> "SimilarityCalculated", user1 |-> user2, user2 |-> user1,
     requestId |-> requestId]

\* event SimilarityCalculated(user1, user2, requestId)
SimilarityCalculated(user1, user2, requestId) ==
    [name |-> "SimilarityCalculated", user1 |-> user1, user2 |-> user2,
     requestId |-> requestId]

\* mapping write m[key] = value
store(m, key, value) ==
    [k \in DOMAIN m \cup {key} |-> IF k = key THEN value ELSE m[k]]

calculateSimilarity(caller, targetUser) ==
    LET requestId == requestIdOf(caller, targetUser, blockNumber)
    IN /\ calculateSimilarityError(caller, targetUser) = OK
       /\ matchRequests' =
              store(matchRequests, requestId,
                    newMatchRequest(caller, targetUser, blockTimestamp(blockNumber)))
       \* the record holds ciphertexts computed in this call: no task is filed
       /\ decryptTasks' = store(decryptTasks, requestId, NoTasks)
       /\ events' = Append(events, SimilarityCalculated(caller, targetUser, requestId))
       /\ nCalc' = nCalc + 1
       /\ UNCHANGED <<profiles, allUsers, blockNumber, submitted, everMatched,
                      liveMatched, oracle, pendingDecryptions>>

\* ----------------------------------------------- decryption orchestrator
decrypt_BothHalves(tasks, requestId, half) ==
    [tasks EXCEPT ![requestId] =
        [h \in DOMAIN @ |-> IF @[h] = "none" THEN "requested" ELSE @[h]]]

\* FHE.decrypt(ciphertext): files a decryption task unless one exists
decrypt(tasks, requestId, half) ==
    [tasks EXCEPT ![requestId][half] = IF @ = "none" THEN "requested" ELSE @]

\* second component of FHE.getDecryptResultSafe(ciphertext)
decryptResultReady(requestId, half) == taskAt(requestId, half) = "ready"

requestMatchDecryptionError_NoAuth(caller, requestId) ==
    LET request == matchRequestAt(requestId)
    IN IF ~request.processed THEN NotFound
       ELSE IF request.matchDecrypted THEN MatchAlreadyDecrypted
       ELSE OK

\* the requires of requestMatchDecryption, in execution order
requestMatchDecryptionError(caller, requestId) ==
    LET request == matchRequestAt(requestId)
    IN IF ~request.processed THEN NotFound
       ELSE IF request.matchDecrypted THEN MatchAlreadyDecrypted
       ELSE IF ~(caller = request.requester \/ caller = request.target)
            THEN Unauthorized
       ELSE OK

requestMatchDecryption(caller, requestId) ==
    /\ requestMatchDecryptionError(caller, requestId) = OK
    /\ decryptTasks' = decrypt(decryptTasks, requestId, "match")
    /\ UNCHANGED <<profiles, matchRequests, allUsers, blockNumber, submitted,
                   everMatched, liveMatched, nCalc, events, oracle, pendingDecryptions>>

requestScoreDecryptionError_AuthFirst(caller, requestId) ==
    LET request == matchRequestAt(requestId)
    IN IF ~(caller = request.requester \/ caller = request.target)
            THEN Unauthorized
       ELSE IF ~request.processed THEN NotFound
       ELSE IF request.scoreDecrypted THEN ScoreAlreadyDecrypted
       ELSE OK

\* the requires of requestScoreDecryption, in execution order
requestScoreDecryptionError(caller, requestId) ==
    LET request == matchRequestAt(requestId)
    IN IF ~request.processed THEN NotFound
       ELSE IF request.scoreDecrypted THEN ScoreAlreadyDecrypted
       ELSE IF ~(caller = request.requester \/ caller = request.target)
            THEN Unauthorized
       ELSE OK

requestScoreDecryption(caller, requestId) ==
    /\ requestScoreDecryptionError(caller, requestId) = OK
    /\ decryptTasks' = decrypt(decryptTasks, requestId, "score")
    /\ UNCHANGED <<profiles, matchRequests, allUsers, blockNumber, submitted,
                   everMatched, liveMatched, nCalc, events, oracle, pendingDecryptions>>

DecryptionReady_Unrequested(requestId, half) ==
    /\ decryptTasks[requestId][half] \in {"none", "requested"}
    /\ decryptTasks' = [decryptTasks EXCEPT ![requestId][half] = "ready"]
    /\ UNCHANGED <<profiles, matchRequests, allUsers, blockNumber, submitted,
                   everMatched, liveMatched, nCalc, events, oracle, pendingDecryptions>>

\* the decryption network delivers the plaintext of a requested ciphertext
DecryptionReady(requestId, half) ==
    /\ decryptTasks[requestId][half] = "requested"
    /\ decryptTasks' = [decryptTasks EXCEPT ![requestId][half] = "ready"]
    /\ UNCHANGED <<profiles, matchRequests, allUsers, blockNumber, submitted,
                   everMatched, liveMatched, nCalc, events, oracle, pendingDecryptions>>

processMatchDecryptionError_NoReadyCheck(caller, requestId) ==
    LET request == matchRequestAt(requestId)
    IN IF ~request.processed THEN NotFound
       ELSE IF request.matchDecrypted THEN MatchAlreadyProcessed
       ELSE OK

processMatchDecryptionError_NoDecryptedCheck(caller, requestId) ==
    LET request == matchRequestAt(requestId)
    IN IF ~request.processed THEN NotFound
       ELSE IF ~decryptResultReady(requestId, "match") THEN NotReady
       ELSE OK

\* the requires of processMatchDecryption, in execution order
processMatchDecryptionError(caller, requestId) ==
    LET request == matchRequestAt(requestId)
    IN IF ~request.processed THEN NotFound
       ELSE IF request.matchDecrypted THEN MatchAlreadyProcessed
       ELSE IF ~decryptResultReady(requestId, "match") THEN NotReady
       ELSE OK

pushMatches_RequesterOnly(profs, requester, target) ==
    [profs EXCEPT ![requester].matches = Append(@, target)]

\* the two pushes of processMatchDecryption
pushMatches(profs, requester, target) ==
    LET p1 == [profs EXCEPT ![requester].matches = Append(@, target)]
    IN [p1 EXCEPT ![target].matches = Append(@, requester)]

\* event MatchFound(user1, user2, timestamp)
MatchFound(user1, user2, timestamp) ==
    [name |-> "MatchFound", user1 |-> user1, user2 |-> user2,
     timestamp |-> timestamp]

\* event MatchDecrypted(requestId, isMatch)
MatchDecrypted(requestId, isMatch) ==
    [name |-> "MatchDecrypted", requestId |-> requestId, isMatch |-> isMatch]

\* event ScoreDecrypted(requestId, score)
ScoreDecrypted(requestId, score) ==
    [name |-> "ScoreDecrypted", requestId |-> requestId, score |-> score]

\* the events an accepted processMatchDecryption(requestId) emits, in order;
\* the log of the finalize calls is not kept in the state
processMatchDecryptionEvents(requestId) ==
    LET request == matchRequestAt(requestId)
        isMatch == request.isMatchEncrypted
    IN (IF isMatch
        THEN <<MatchFound(request.requester, request.target,
                          blockTimestamp(blockNumber))>>
        ELSE <<>>)
       \o <<MatchDecrypted(requestId, isMatch)>>

\* the events an accepted processScoreDecryption(requestId) emits
processScoreDecryptionEvents(requestId) ==
    <<ScoreDecrypted(requestId, matchRequestAt(requestId).similarityScore)>>

processMatchDecryption_AlwaysPush(caller, requestId) ==
    LET request == matchRequestAt(requestId)
        \* first component of FHE.getDecryptResultSafe(request.isMatchEncrypted)
        isMatch == request.isMatchEncrypted
    IN /\ processMatchDecryptionError(caller, requestId) = OK
       /\ matchRequests' = [matchRequests EXCEPT
                              ![requestId].isMatch = isMatch,
                              ![requestId].matchDecrypted = TRUE]
       /\ profiles' = pushMatches(profiles, request.requester, request.target)
       /\ everMatched' = IF isMatch
                         THEN everMatched \cup {{request.requester, request.target}}
                         ELSE everMatched
       /\ liveMatched' =
              IF /\ isMatch
                 /\ profiles[request.requester].exists
                 /\ profiles[request.target].exists
              THEN liveMatched \cup {{request.requester, request.target}}
              ELSE liveMatched
       /\ UNCHANGED <<allUsers, decryptTasks, blockNumber, submitted, nCalc, events, oracle, pendingDecryptions>>

processMatchDecryption(caller, requestId) ==
    LET request == matchRequestAt(requestId)
        \* first component of FHE.getDecryptResultSafe(request.isMatchEncrypted)
        isMatch == request.isMatchEncrypted
    IN /\ processMatchDecryptionError(caller, requestId) = OK
       /\ matchRequests' = [matchRequests EXCEPT
                              ![requestId].isMatch = isMatch,
                              ![requestId].matchDecrypted = TRUE]
       /\ profiles' = IF isMatch
                      THEN pushMatches(profiles, request.requester, request.target)
                      ELSE profiles
       /\ everMatched' = IF isMatch
                         THEN everMatched \cup {{request.requester, request.target}}
                         ELSE everMatched
       /\ liveMatched' =
              IF /\ isMatch
                 /\ profiles[request.requester].exists
                 /\ profiles[request.target].exists
              THEN liveMatched \cup {{request.requester, request.target}}
              ELSE liveMatched
       /\ UNCHANGED <<allUsers, decryptTasks, blockNumber, submitted, nCalc, events, oracle, pendingDecryptions>>

processScoreDecryptionError_NoReadyCheck(caller, requestId) ==
    LET request == matchRequestAt(requestId)
    IN IF ~request.processed THEN NotFound
       ELSE IF request.scoreDecrypted THEN ScoreAlreadyProcessed
       ELSE OK

\* the requires of processScoreDecryption, in execution order
processScoreDecryptionError(caller, requestId) ==
    LET request == matchRequestAt(requestId)
    IN IF ~request.processed THEN NotFound
       ELSE IF request.scoreDecrypted THEN ScoreAlreadyProcessed
       ELSE IF ~decryptResultReady(requestId, "score") THEN NotReady
       ELSE OK

processScoreDecryption(caller, requestId) ==
    LET request == matchRequestAt(requestId)
        \* first component of FHE.getDecryptResultSafe(request.similarityScore)
        score == request.similarityScore
    IN /\ processScoreDecryptionError(caller, requestId) = OK
       /\ matchRequests' = [matchRequests EXCEPT
                              ![requestId].decryptedScore = score,
                              ![requestId].scoreDecrypted = TRUE]
       /\ UNCHANGED <<profiles, allUsers, decryptTasks, blockNumber, submitted,
                      everMatched, liveMatched, nCalc, events, oracle, pendingDecryptions>>

\* ------------------------------------------------------------ the chain
\* a new block is mined: block.number and block.timestamp advance
NewBlock ==
    /\ blockNumber < MaxBlock
    /\ blockNumber' = blockNumber + 1
    /\ UNCHANGED <<profiles, matchRequests, allUsers, decryptTasks, submitted,
                   everMatched, liveMatched, nCalc, events, oracle, pendingDecryptions>>

\* the request ids a caller can pass: those written so far and an unknown one
RequestIds == DOMAIN matchRequests \cup {UnknownId}

\* the state after deployment
Init ==
    /\ profiles = [u \in Users |-> NoProfile]
    /\ matchRequests = <<>>
    /\ allUsers = <<>>
    /\ decryptTasks = <<>>
    /\ blockNumber = 1
    /\ submitted = {}
    /\ everMatched = {}
    /\ liveMatched = {}
    /\ nCalc = 0
    /\ events = <<>>
    /\ oracle = ZeroAddress
    /\ pendingDecryptions = <<>>

Next ==
    \/ \E caller \in Registrants : \E bitmap \in Bitmaps(caller) :
           submitProfile(caller, bitmap)
    \/ \E caller \in Users : deleteProfile(caller)
    \/ \E caller \in Users, targetUser \in Users :
           nCalc < MaxCalc /\ calculateSimilarity(caller, targetUser)
    \/ \E caller \in Users, requestId \in RequestIds :
           requestMatchDecryption(caller, requestId)
    \/ \E caller \in Users, requestId \in RequestIds :
           requestScoreDecryption(caller, requestId)
    \/ \E caller \in Users, requestId \in RequestIds :
           processMatchDecryption(caller, requestId)
    \/ \E caller \in Users, requestId \in RequestIds :
           processScoreDecryption(caller, requestId)
    \/ \E requestId \in DOMAIN decryptTasks, half \in {"score", "match"} :
           DecryptionReady(requestId, half)
    \/ NewBlock

Spec == Init /\ [][Next]_vars

\* ------------------------------------------- repeated calculations
\* the state after alice and bob have submitted their profiles in block 1
InitRegistered ==
    /\ \E bitmap \in Bitmaps("bob") :
           profiles = [u \in Users |->
                          IF u = "alice" THEN newProfile(7, blockTimestamp(1))
                          ELSE IF u = "bob" THEN newProfile(bitmap, blockTimestamp(1))
                          ELSE NoProfile]
    /\ matchRequests = <<>>
    /\ allUsers = <<"alice", "bob">>
    /\ decryptTasks = <<>>
    /\ blockNumber = 1
    /\ submitted = {"alice", "bob"}
    /\ everMatched = {}
    /\ liveMatched = {}
    /\ nCalc = 0
    /\ events = <<>>
    /\ oracle = ZeroAddress
    /\ pendingDecryptions = <<>>

\* the calls of two registered users that compare each other more than once
NextRepeat ==
    \/ \E caller \in Users, targetUser \in Users :
           nCalc < MaxCalc + 1 /\ calculateSimilarity(caller, targetUser)
    \/ \E caller \in Users, requestId \in RequestIds :
           requestMatchDecryption(caller, requestId)
    \/ \E caller \in Users, requestId \in RequestIds :
           requestScoreDecryption(caller, requestId)
    \/ \E caller \in Users, requestId \in RequestIds :
           processMatchDecryption(caller, requestId)
    \/ \E caller \in Users, requestId \in RequestIds :
           processScoreDecryption(caller, requestId)
    \/ \E requestId \in DOMAIN decryptTasks, half \in {"score", "match"} :
           DecryptionReady(requestId, half)
    \/ NewBlock

SpecRepeat == InitRegistered /\ [][NextRepeat]_vars

\* the same calls, with the requester free to delete and resubmit its profile
NextLive ==
    \/ NextRepeat
    \/ \E caller \in Registrants : deleteProfile(caller)
    \/ \E caller \in Registrants :
           \E bitmap \in Bitmaps(caller) : submitProfile(caller, bitmap)

\* the request ids two registered users can produce
LedgerIds ==
    {requestIdOf(requester, targetUser, number) :
        requester \in Registrants, targetUser \in Registrants,
        number \in 1..MaxBlock}

\* the network delivers every requested plaintext
DeliveryFairness ==
    \A requestId \in LedgerIds, half \in {"score", "match"} :
        WF_vars(requestId \in DOMAIN decryptTasks /\ DecryptionReady(requestId, half))

\* the callers keep retrying the two finalize calls
RetryFairness ==
    \A requestId \in LedgerIds :
        /\ WF_vars(\E caller \in Users : processMatchDecryption(caller, requestId))
        /\ WF_vars(\E caller \in Users : processScoreDecryption(caller, requestId))

SpecLive == InitRegistered /\ [][NextLive]_vars /\ DeliveryFairness /\ RetryFairness

\* ------------------------------------------- every pair of bitmaps
\* the plaintexts an euint8 can hold
Uint8 == 0..255

\* the state after alice and bob have submitted any two 8-bit bitmaps
InitAnyBitmaps ==
    /\ \E a \in Uint8, b \in Uint8 :
           profiles = [u \in Users |->
                          IF u = "alice" THEN newProfile(a, blockTimestamp(1))
                          ELSE IF u = "bob" THEN newProfile(b, blockTimestamp(1))
                          ELSE NoProfile]
    /\ matchRequests = <<>>
    /\ allUsers = <<"alice", "bob">>
    /\ decryptTasks = <<>>
    /\ blockNumber = 1
    /\ submitted = {"alice", "bob"}
    /\ everMatched = {}
    /\ liveMatched = {}
    /\ nCalc = 0
    /\ events = <<>>
    /\ oracle = ZeroAddress
    /\ pendingDecryptions = <<>>

\* alice compares herself with bob and takes both halves through decryption
NextScore ==
    \/ nCalc < 1 /\ calculateSimilarity("alice", "bob")
    \/ \E requestId \in DOMAIN matchRequests :
           requestMatchDecryption("alice", requestId)
    \/ \E requestId \in DOMAIN matchRequests :
           requestScoreDecryption("alice", requestId)
    \/ \E requestId \in DOMAIN matchRequests :
           processMatchDecryption("alice", requestId)
    \/ \E requestId \in DOMAIN matchRequests :
           processScoreDecryption("alice", requestId)
    \/ \E requestId \in DOMAIN decryptTasks, half \in {"score", "match"} :
           DecryptionReady(requestId, half)

SpecScore == InitAnyBitmaps /\ [][NextScore]_vars

\* ---------------------------------------------------------- batches
\* the per-target requires in the loop of batchCalculateSimilarity
batchTargetError_NoExistsCheck(caller, targetUser) ==
    IF targetUser = caller THEN SelfMatchForbidden
    ELSE IF isAlreadyMatched(caller, targetUser) THEN AlreadyMatchedWithUser
    ELSE OK

batchTargetError_NoSelfCheck(caller, targetUser) ==
    IF ~profileAt(targetUser).exists THEN TargetNotFound
    ELSE IF isAlreadyMatched(caller, targetUser) THEN AlreadyMatchedWithUser
    ELSE OK

batchTargetError(caller, targetUser) ==
    IF ~profileAt(targetUser).exists THEN TargetNotFound
    ELSE IF targetUser = caller THEN SelfMatchForbidden
    ELSE IF isAlreadyMatched(caller, targetUser) THEN AlreadyMatchedWithUser
    ELSE OK

\* the revert reason of the loop of batchCalculateSimilarity from index i on:
\* that of the first target failing a require.  The requires read profiles,
\* which _calculateSimilarity does not write, so they see the state of entry.
RECURSIVE batchLoopError(_, _, _)
batchLoopError(caller, targets, i) ==
    IF i > Len(targets) THEN OK
    ELSE IF batchTargetError(caller, targets[i]) # OK
         THEN batchTargetError(caller, targets[i])
    ELSE batchLoopError(caller, targets, i + 1)

\* the memory and storage the loop of batchCalculateSimilarity works on
batchStart ==
    [requestIds |-> <<>>, matchRequests |-> matchRequests,
     decryptTasks |-> decryptTasks, events |-> events]

\* the effects of the loop of batchCalculateSimilarity from index i on, up to
\* the first target failing a require: _calculateSimilarity stores the record
\* and emits the event, and the id goes into requestIds[i]
RECURSIVE batchLoop(_, _, _, _)
batchLoop(caller, targets, i, run) ==
    IF i > Len(targets) THEN run
    ELSE IF batchTargetError(caller, targets[i]) # OK THEN run
    ELSE LET requestId == requestIdOf(caller, targets[i], blockNumber)
         IN batchLoop(caller, targets, i + 1,
                [requestIds |-> Append(run.requestIds, requestId),
                 matchRequests |->
                     store(run.matchRequests, requestId,
                           newMatchRequest(caller, targets[i],
                                           blockTimestamp(blockNumber))),
                 decryptTasks |-> store(run.decryptTasks, requestId, NoTasks),
                 events |-> Append(run.events,
                                   SimilarityCalculated(caller, targets[i], requestId))])

batchCalculateSimilarityError_NoCap(caller, targets) ==
    IF ~profileAt(caller).exists THEN NotRegistered
    ELSE IF ~(Len(targets) > 0) THEN NoTargets
    ELSE batchLoopError(caller, targets, 1)

\* the modifier and the requires of batchCalculateSimilarity, then its loop
batchCalculateSimilarityError(caller, targets) ==
    IF ~profileAt(caller).exists THEN NotRegistered
    ELSE IF ~(Len(targets) > 0) THEN NoTargets
    ELSE IF ~(Len(targets) <= 10) THEN TooManyTargets
    ELSE batchLoopError(caller, targets, 1)

batchReturn_Reversed(caller, targets) ==
    LET ids == batchLoop(caller, targets, 1, batchStart).requestIds
    IN [i \in 1..Len(ids) |-> ids[Len(ids) + 1 - i]]

\* the bytes32[] a successful batchCalculateSimilarity returns
batchReturn(caller, targets) == batchLoop(caller, targets, 1, batchStart).requestIds

batchCalculateSimilarity(caller, targets) ==
    LET run == batchLoop(caller, targets, 1, batchStart)
    IN /\ batchCalculateSimilarityError(caller, targets) = OK
       /\ matchRequests' = run.matchRequests
       /\ decryptTasks' = run.decryptTasks
       /\ events' = run.events
       /\ nCalc' = nCalc + 1
       /\ UNCHANGED <<profiles, allUsers, blockNumber, submitted, everMatched,
                      liveMatched, oracle, pendingDecryptions>>

\* n copies of one address
Repeated(user, n) == [i \in 1..n |-> user]

\* the address lists passed as targets: every list of at most two addresses,
\* lists of ten and eleven, and a list of ten whose last address has no profile
TargetAddresses == Users \cup {ZeroAddress}
BatchTargets ==
    {<<>>} \cup {<<t>> : t \in TargetAddresses}
           \cup {<<t1, t2>> : <<t1, t2>> \in TargetAddresses \X TargetAddresses}
           \cup {Repeated("bob", 10), Repeated("bob", 11), Repeated(ZeroAddress, 11),
                 Append(Repeated("bob", 9), ZeroAddress)}

\* the state after alice, bob and charlie have submitted their profiles
InitThreeRegistered ==
    /\ profiles = [u \in Users |->
                      newProfile(IF u = "charlie" THEN 1 ELSE 7, blockTimestamp(1))]
    /\ matchRequests = <<>>
    /\ allUsers = <<"alice", "bob", "charlie">>
    /\ decryptTasks = <<>>
    /\ blockNumber = 1
    /\ submitted = Users
    /\ everMatched = {}
    /\ liveMatched = {}
    /\ nCalc = 0
    /\ events = <<>>
    /\ oracle = ZeroAddress
    /\ pendingDecryptions = <<>>

\* batches of alice and bob, and the decryption of their match halves
NextBatch ==
    \/ \E caller \in Registrants, targets \in BatchTargets :
           nCalc < MaxCalc /\ batchCalculateSimilarity(caller, targets)
    \/ \E requestId \in DOMAIN matchRequests :
           requestMatchDecryption(matchRequests[requestId].requester, requestId)
    \/ \E requestId \in DOMAIN decryptTasks : DecryptionReady(requestId, "match")
    \/ \E requestId \in DOMAIN matchRequests :
           processMatchDecryption(matchRequests[requestId].requester, requestId)
    \/ NewBlock

SpecBatch == InitThreeRegistered /\ [][NextBatch]_vars

\* ======================================================= oracle variant
\* BlindMatch with 32-bit bitmaps, whose match flag is decrypted by an oracle
\* contract that calls handleMatchDecryption back.  submitProfile,
\* deleteProfile and isAlreadyMatched read the same in both contracts and are
\* the definitions above; matchRequests holds the oracle variant's records.
ORACLE_MATCH_THRESHOLD == 8

\* address(this), and the address of the deployed MockOracle
ThisContract == "blindMatch"
MockOracleAddress == "mockOracle"

\* plaintexts of the 32-bit bitmaps a user encrypts and submits: the sixteen
\* and eight interests of the contract's test, and two small ones
Bitmaps32(user) == IF user = "alice" THEN {3, 65535} ELSE {5, 65280}

OnlyOracle == "Only oracle can call this function"
InvalidRequestState == "Invalid request state"
\* a high-level call to an address that holds no contract reverts without reason
CallReverted == ""

\* FHE.asEuint8(FHE.mul(a, b)): the low byte of the product taken modulo 2^32,
\* which is the low byte of the product of the low bytes
mulAsEuint8(a, b) == ((a % 256) * (b % 256)) % 256

setOracle(caller, newOracle) ==
    /\ oracle' = newOracle
    /\ UNCHANGED <<profiles, matchRequests, allUsers, decryptTasks, blockNumber,
                   submitted, everMatched, liveMatched, nCalc, events,
                   pendingDecryptions>>

\* whether IOracle(oracle).requestDecryption(..) returns
oracleAnswers == oracle = MockOracleAddress

\* the modifiers and requires of calculateAndMatch in execution order, then
\* the call of the oracle
calculateAndMatchError(sender, targetUser) ==
    IF ~profileAt(sender).exists THEN NotRegistered
    ELSE IF ~profileAt(targetUser).exists THEN TargetNotFound
    ELSE IF targetUser = sender THEN SelfMatchForbidden
    ELSE IF isAlreadyMatched(sender, targetUser) THEN AlreadyMatched
    ELSE IF ~oracleAnswers THEN CallReverted
    ELSE OK

\* keccak256(abi.encodePacked(msg.sender, targetUser, block.timestamp))
oracleRequestIdOf(sender, targetUser, number) ==
    <<sender, targetUser, blockTimestamp(number)>>

\* the ebool calculateAndMatch passes to the oracle
isMatchEncryptedOf(similarityScore) == similarityScore >= ORACLE_MATCH_THRESHOLD

\* the MatchRequest literal calculateAndMatch stores
newOracleMatchRequest(sender, targetUser, now) ==
    [requester |-> sender, target |-> targetUser,
     similarityScore |-> mulAsEuint8(profiles[sender].interestsBitmap,
                                     profiles[targetUser].interestsBitmap),
     processed |-> TRUE, timestamp |-> now, isMatch |-> FALSE,
     matchDecrypted |-> FALSE]

\* event DecryptionRequested(requestId, decryptionId)
DecryptionRequested(requestId, decryptionId) ==
    [name |-> "DecryptionRequested", requestId |-> requestId,
     decryptionId |-> decryptionId]

calculateAndMatch(sender, targetUser) ==
    LET requestId == oracleRequestIdOf(sender, targetUser, blockNumber)
        \* the return value of MockOracle.requestDecryption
        decryptionId == 1
    IN /\ calculateAndMatchError(sender, targetUser) = OK
       /\ matchRequests' =
              store(matchRequests, requestId,
                    newOracleMatchRequest(sender, targetUser,
                                          blockTimestamp(blockNumber)))
       /\ pendingDecryptions' = store(pendingDecryptions, decryptionId, requestId)
       /\ events' = Append(Append(events,
                                   DecryptionRequested(requestId, decryptionId)),
                            SimilarityCalculated(sender, targetUser, requestId))
       /\ nCalc' = nCalc + 1
       /\ UNCHANGED <<profiles, allUsers, decryptTasks, blockNumber, submitted,
                      everMatched, liveMatched, oracle>>

handleMatchDecryptionError_NoStateCheck(sender, requestId) ==
    IF sender # oracle THEN OnlyOracle ELSE OK

\* the modifier and the require of handleMatchDecryption
handleMatchDecryptionError(sender, requestId) ==
    LET request == matchRequestAt(requestId)
    IN IF sender # oracle THEN OnlyOracle
       ELSE IF ~(request.processed /\ ~request.matchDecrypted) THEN InvalidRequestState
       ELSE OK

handleMatchDecryption(sender, requestId, isMatch) ==
    LET request == matchRequestAt(requestId)
    IN /\ handleMatchDecryptionError(sender, requestId) = OK
       /\ matchRequests' = [matchRequests EXCEPT
                              ![requestId].isMatch = isMatch,
                              ![requestId].matchDecrypted = TRUE]
       /\ profiles' = IF isMatch
                      THEN pushMatches(profiles, request.requester, request.target)
                      ELSE profiles
       /\ everMatched' = IF isMatch
                         THEN everMatched \cup {{request.requester, request.target}}
                         ELSE everMatched
       /\ liveMatched' =
              IF /\ isMatch
                 /\ profiles[request.requester].exists
                 /\ profiles[request.target].exists
              THEN liveMatched \cup {{request.requester, request.target}}
              ELSE liveMatched
       /\ UNCHANGED <<allUsers, decryptTasks, blockNumber, submitted, nCalc, events,
                      oracle, pendingDecryptions>>

\* MockOracle.simulateDecryptionCallback(address(BlindMatch), requestId, isMatch):
\* the mock calls handleMatchDecryption and requires the call to succeed
simulateDecryptionCallback(caller, requestId, isMatch) ==
    handleMatchDecryption(MockOracleAddress, requestId, isMatch)

\* the per-target requires of batchCalculateAndMatch from index i on, each
\* followed by the external call this.calculateAndMatch(targets[i]), whose
\* msg.sender is the contract itself
RECURSIVE batchCalculateAndMatchLoop(_, _, _)
batchCalculateAndMatchLoop(caller, targets, i) ==
    IF i > Len(targets) THEN OK
    ELSE IF ~profileAt(targets[i]).exists THEN TargetNotFound
    ELSE IF targets[i] = caller THEN SelfMatchForbidden
    ELSE IF isAlreadyMatched(caller, targets[i]) THEN AlreadyMatchedWithUser
    ELSE IF calculateAndMatchError(ThisContract, targets[i]) # OK
         THEN calculateAndMatchError(ThisContract, targets[i])
    ELSE batchCalculateAndMatchLoop(caller, targets, i + 1)

\* the modifier and requires of batchCalculateAndMatch, then its loop
batchCalculateAndMatchError(caller, targets) ==
    IF ~profileAt(caller).exists THEN NotRegistered
    ELSE IF ~(Len(targets) > 0) THEN NoTargets
    ELSE IF ~(Len(targets) <= 10) THEN TooManyTargets
    ELSE batchCalculateAndMatchLoop(caller, targets, 1)

\* the state after deployment
InitOracle ==
    /\ profiles = [u \in Users |-> NoProfile]
    /\ matchRequests = <<>>
    /\ allUsers = <<>>
    /\ decryptTasks = <<>>
    /\ blockNumber = 1
    /\ submitted = {}
    /\ everMatched = {}
    /\ liveMatched = {}
    /\ nCalc = 0
    /\ events = <<>>
    /\ oracle = ZeroAddress
    /\ pendingDecryptions = <<>>

NextOracle ==
    \/ \E caller \in Registrants : \E bitmap \in Bitmaps32(caller) :
           submitProfile(caller, bitmap)
    \/ \E caller \in Users : deleteProfile(caller)
    \/ \E caller \in Users, newOracle \in {MockOracleAddress, "charlie"} :
           setOracle(caller, newOracle)
    \/ \E caller \in Users, targetUser \in Users :
           nCalc < MaxCalc /\ calculateAndMatch(caller, targetUser)
    \/ \E sender \in Users, requestId \in RequestIds, isMatch \in BOOLEAN :
           handleMatchDecryption(sender, requestId, isMatch)
    \/ \E caller \in Users, requestId \in RequestIds, isMatch \in BOOLEAN :
           simulateDecryptionCallback(caller, requestId, isMatch)
    \/ NewBlock

SpecOracle == InitOracle /\ [][NextOracle]_vars

\* ================================================================ claims
\* the two parties of a ledger record
parties(requestId) ==
    {matchRequests[requestId].requester, matchRequests[requestId].target}

\* C1: an identity whose last successful profile call was submitProfile (no
\* deleteProfile since) has any further submitProfile rejected with "Profile
\* already exists"; as long as that holds, its stored interests and creation
\* time stay as they were, its match list is only appended to, and the
\* participant index keeps its single entry for it.
C1_DuplicateSubmitRejected ==
    /\ [](\A x \in Users : x \in submitted => submitProfileError(x) = AlreadyExists)
    /\ [][\A x \in Users :
            (x \in submitted /\ x \in submitted') =>
                /\ profiles'[x].exists
                /\ profiles'[x].interestsBitmap = profiles[x].interestsBitmap
                /\ profiles'[x].profileCreatedAt = profiles[x].profileCreatedAt
                /\ Len(profiles'[x].matches) >= Len(profiles[x].matches)
                /\ SubSeq(profiles'[x].matches, 1, Len(profiles[x].matches))
                       = profiles[x].matches
                /\ Occurrences(allUsers', x) = Occurrences(allUsers, x)]_vars

\* a registered identity with a match on record, in a later block than its
\* profile: a second submit would have to replace all three fields
C1_Witness ==
    \E x \in submitted :
        /\ profiles[x].matches # <<>>
        /\ profiles[x].profileCreatedAt < blockTimestamp(blockNumber)
        /\ submitProfileError(x) = AlreadyExists

\* C2: a successful deleteProfile by x leaves hasProfile(x) false and x absent
\* from getAllUsers(), decreases getTotalUsers() by exactly one, and keeps every
\* other identity of the participant index in it exactly once.
C2_DeleteRemovesFromIndex ==
    [][\A x \in Users :
         deleteProfile(x) =>
             /\ ~profiles'[x].exists
             /\ Occurrences(allUsers', x) = 0
             /\ Len(allUsers') = Len(allUsers) - 1
             /\ \A y \in Users \ {x} :
                    Occurrences(allUsers, y) >= 1 => Occurrences(allUsers', y) = 1]_vars

\* the requester of a ledger record has deleted its profile, the target is
\* still in the index
C2_Witness ==
    \E requestId \in DOMAIN matchRequests :
        /\ ~hasProfile(matchRequests[requestId].requester)
        /\ Occurrences(getAllUsers, matchRequests[requestId].target) = 1

\* C3: the participant index is exactly the set of identities with a live
\* profile: no duplicates, x in it iff hasProfile(x), and getTotalUsers() is the
\* number of live profiles.
C3_IndexIsLiveProfiles ==
    /\ \A x \in Users :
           Occurrences(getAllUsers, x) = (IF hasProfile(x) THEN 1 ELSE 0)
    /\ \A i \in 1..Len(getAllUsers) : getAllUsers[i] \in Users
    /\ getTotalUsers = Cardinality({x \in Users : hasProfile(x)})

\* the index after a delete moved its last entry to the front: bob registered
\* after alice, alice deleted and registered again
C3_Witness ==
    /\ getAllUsers = <<"bob", "alice">>
    /\ profiles["alice"].profileCreatedAt > profiles["bob"].profileCreatedAt

\* C4: calculateSimilarity(target) by caller fails with the first precondition
\* that does not hold, in the order caller registered, target registered,
\* caller # target, not already matched; and a ledger record is only ever
\* written for a pair that passes all four.
C4_PreconditionOrder ==
    /\ [](\A c \in Users, t \in Users :
            calculateSimilarityError(c, t) =
                IF ~hasProfile(c) THEN NotRegistered
                ELSE IF ~hasProfile(t) THEN TargetNotFound
                ELSE IF c = t THEN SelfMatchForbidden
                ELSE IF isAlreadyMatched(c, t) THEN AlreadyMatched
                ELSE OK)
    /\ [][\A requestId \in DOMAIN matchRequests' \ DOMAIN matchRequests :
            calculateSimilarityError(matchRequests'[requestId].requester,
                                     matchRequests'[requestId].target) = OK]_vars

\* two preconditions fail at once: the caller is matched with a target that
\* has deleted its profile, and neither of two identities is registered
C4_Witness ==
    /\ \E c \in Users, t \in Users :
           hasProfile(c) /\ ~hasProfile(t) /\ isAlreadyMatched(c, t)
    /\ \E c \in Users, t \in Users : c # t /\ ~hasProfile(c) /\ ~hasProfile(t)

C6_NoSecondCalculation ==
    \A requestId \in DOMAIN matchRequests :
        ~matchRequests[requestId].matchDecrypted =>
            calculateSimilarityError(matchRequests[requestId].requester,
                                     matchRequests[requestId].target) # OK

\* C7: once the decryption of a half has been requested, and until that half
\* is finalized, a further request for the same half of the same request id
\* is rejected.
C7_NoSecondDecryptionRequest ==
    \A requestId \in DOMAIN matchRequests : \A caller \in parties(requestId) :
        /\ (taskAt(requestId, "match") # "none"
                /\ ~matchRequests[requestId].matchDecrypted) =>
               requestMatchDecryptionError(caller, requestId) # OK
        /\ (taskAt(requestId, "score") # "none"
                /\ ~matchRequests[requestId].scoreDecrypted) =>
               requestScoreDecryptionError(caller, requestId) # OK

\* C8 as stated: on an existing request, a decryption request by an identity
\* that is neither its requester nor its target fails with "Only involved
\* parties can decrypt", whatever the state of the two halves.
C8_ThirdPartyUnauthorized ==
    \A requestId \in DOMAIN matchRequests : \A caller \in Users \ parties(requestId) :
        /\ requestMatchDecryptionError(caller, requestId) = Unauthorized
        /\ requestScoreDecryptionError(caller, requestId) = Unauthorized

\* C8 as amended: on an existing request, a decryption request succeeds only
\* for its requester or target; one by any other identity fails, with "Only
\* involved parties can decrypt" while that half is not decrypted and with
\* "Match already decrypted" / "Score already decrypted" once it is.
C8_ThirdPartyRejected ==
    \A requestId \in DOMAIN matchRequests : \A caller \in Users :
        /\ requestMatchDecryptionError(caller, requestId) = OK =>
               caller \in parties(requestId)
        /\ requestScoreDecryptionError(caller, requestId) = OK =>
               caller \in parties(requestId)
        /\ caller \notin parties(requestId) =>
               /\ requestMatchDecryptionError(caller, requestId) =
                      IF matchRequests[requestId].matchDecrypted
                      THEN MatchAlreadyDecrypted ELSE Unauthorized
               /\ requestScoreDecryptionError(caller, requestId) =
                      IF matchRequests[requestId].scoreDecrypted
                      THEN ScoreAlreadyDecrypted ELSE Unauthorized

\* a request with one half decrypted and the other requested by a party: an
\* outsider gets the two different rejections
C8_Witness ==
    \E requestId \in DOMAIN matchRequests : \E caller \in Users \ parties(requestId) :
        /\ matchRequests[requestId].matchDecrypted
        /\ taskAt(requestId, "score") = "requested"
        /\ requestMatchDecryptionError(caller, requestId) = MatchAlreadyDecrypted
        /\ requestScoreDecryptionError(caller, requestId) = Unauthorized

\* C9: a finalize of either half by an identity that is neither the requester
\* nor the target of the request fails with Unauthorized, also when the
\* plaintext is ready and the half not yet decrypted.
C9_FinalizeOnlyByParties ==
    \A requestId \in DOMAIN matchRequests : \A caller \in Users \ parties(requestId) :
        /\ (decryptResultReady(requestId, "match")
                /\ ~matchRequests[requestId].matchDecrypted) =>
               processMatchDecryptionError(caller, requestId) = Unauthorized
        /\ (decryptResultReady(requestId, "score")
                /\ ~matchRequests[requestId].scoreDecrypted) =>
               processScoreDecryptionError(caller, requestId) = Unauthorized

\* C10: between the decryption request of a half and the network's delivery, a
\* finalize of that half fails with "Decryption not ready yet"; while it is so
\* the half's decrypted flag and plaintext keep their initial values; a match
\* list only grows by the finalize of a delivered match half; once the
\* plaintext is delivered the finalize is accepted.
C10_NotReadyThenReady ==
    /\ [](\A requestId \in DOMAIN matchRequests : \A caller \in Users :
            LET request == matchRequests[requestId]
            IN /\ taskAt(requestId, "match") = "requested" =>
                      /\ processMatchDecryptionError(caller, requestId) = NotReady
                      /\ ~request.matchDecrypted /\ ~request.isMatch
               /\ taskAt(requestId, "score") = "requested" =>
                      /\ processScoreDecryptionError(caller, requestId) = NotReady
                      /\ ~request.scoreDecrypted /\ request.decryptedScore = 0
               /\ (taskAt(requestId, "match") = "ready" /\ ~request.matchDecrypted) =>
                      processMatchDecryptionError(caller, requestId) = OK
               /\ (taskAt(requestId, "score") = "ready" /\ ~request.scoreDecrypted) =>
                      processScoreDecryptionError(caller, requestId) = OK)
    /\ [][\A u \in Users :
            Len(profiles'[u].matches) > Len(profiles[u].matches) =>
                \E requestId \in DOMAIN matchRequests :
                    /\ u \in parties(requestId)
                    /\ taskAt(requestId, "match") = "ready"
                    /\ ~matchRequests[requestId].matchDecrypted
                    /\ matchRequests'[requestId].matchDecrypted]_vars

\* a request whose match half was finalized after the delivery and whose score
\* half is requested and not yet delivered
C10_Witness ==
    \E requestId \in DOMAIN matchRequests :
        /\ matchRequests[requestId].matchDecrypted
        /\ taskAt(requestId, "match") = "ready"
        /\ taskAt(requestId, "score") = "requested"
        /\ processScoreDecryptionError(matchRequests[requestId].target, requestId)
               = NotReady

C12_NoDuplicateMatches ==
    \A u \in Users, v \in Users : Occurrences(profiles[u].matches, v) <= 1

\* bit i of a plaintext
Bit(value, i) == (value \div Pow2(i)) % 2

\* the number of interests two plaintext bitmaps share
CommonInterests(a, b) ==
    Cardinality({i \in 0..7 : Bit(a, i) = 1 /\ Bit(b, i) = 1})

\* C13: for all 8-bit bitmaps A of the requester and B of the target, with k
\* the number of bit positions set in both, the record of calculateSimilarity
\* encrypts the score k (never more than 8) and the flag k >= 3, and after
\* the finalize of a half decryptedScore = k, isMatch = (k >= 3).
C13_ScoreIsPopcount ==
    \A requestId \in DOMAIN matchRequests :
        LET request == matchRequests[requestId]
            k == CommonInterests(profiles[request.requester].interestsBitmap,
                                 profiles[request.target].interestsBitmap)
        IN /\ request.similarityScore = k
           /\ request.similarityScore <= 8
           /\ request.isMatchEncrypted = (k >= MATCH_THRESHOLD)
           /\ request.scoreDecrypted => request.decryptedScore = k
           /\ request.matchDecrypted => request.isMatch = (k >= 3)

\* both halves decrypted for a bitmap of all eight interests and one of
\* three, which share exactly three
C13_Witness ==
    \E requestId \in DOMAIN matchRequests :
        /\ profiles["alice"].interestsBitmap = 255
        /\ profiles["bob"].interestsBitmap = 131
        /\ matchRequests[requestId].scoreDecrypted
        /\ matchRequests[requestId].matchDecrypted
        /\ matchRequests[requestId].decryptedScore = 3
        /\ matchRequests[requestId].isMatch

\* the number of bit positions set in both of two plaintext bitmaps
RECURSIVE CommonBits(_, _)
CommonBits(a, b) ==
    IF a = 0 \/ b = 0 THEN 0
    ELSE (a % 2) * (b % 2) + CommonBits(a \div 2, b \div 2)

\* C14: every calculateAndMatch stores as similarityScore the number of bit
\* positions set in both the caller's and the target's bitmap, a value in
\* 0..32, and passes to the oracle a flag that is true iff that number is at
\* least MATCH_THRESHOLD.
C14_OracleScoreIsCommonCount ==
    [][nCalc' = nCalc + 1 =>
          LET requestId == events'[Len(events')].requestId
              request == matchRequests'[requestId]
              k == CommonBits(profiles[request.requester].interestsBitmap,
                              profiles[request.target].interestsBitmap)
          IN /\ request.similarityScore = k
             /\ request.similarityScore \in 0..32
             /\ isMatchEncryptedOf(request.similarityScore)
                    = (k >= ORACLE_MATCH_THRESHOLD)]_vars

\* the target lists of one or two distinct identities
DistinctTargets ==
    {<<t>> : t \in Users} \cup
    {<<t1, t2>> : <<t1, t2>> \in {pair \in Users \X Users : pair[1] # pair[2]}}

\* C18: with a working oracle set, batchCalculateAndMatch by a registered
\* caller over distinct registered targets, none the caller and none already
\* matched with it, succeeds.
C18_OracleBatchSucceeds ==
    \A caller \in Users : \A targets \in DistinctTargets :
        (/\ oracleAnswers
         /\ hasProfile(caller)
         /\ \A i \in 1..Len(targets) :
                /\ hasProfile(targets[i])
                /\ targets[i] # caller
                /\ ~isAlreadyMatched(caller, targets[i]))
            => batchCalculateAndMatchError(caller, targets) = OK

\* a target that passes the three per-target preconditions of a batch
ValidTarget(caller, targetUser) ==
    /\ targetUser \in Users
    /\ hasProfile(targetUser)
    /\ targetUser # caller
    /\ ~isAlreadyMatched(caller, targetUser)

\* C15: for a registered caller, batchCalculateSimilarity fails with "No
\* targets provided" on the empty list and with "Too many targets" on a list
\* of more than ten addresses whatever they are, a list of exactly ten valid
\* targets is accepted, and no call emits (stores) more than ten comparisons.
C15_BatchSizeLimits ==
    /\ [](\A caller \in Users :
          \A targets \in {list \in BatchTargets : Len(list) \notin 1..9} :
            hasProfile(caller) =>
                /\ Len(targets) = 0 =>
                       batchCalculateSimilarityError(caller, targets) = NoTargets
                /\ Len(targets) > 10 =>
                       batchCalculateSimilarityError(caller, targets) = TooManyTargets
                /\ (Len(targets) = 10
                        /\ \A i \in 1..10 : ValidTarget(caller, targets[i])) =>
                       batchCalculateSimilarityError(caller, targets) = OK)
    /\ [][Len(events') - Len(events) \in 0..10]_vars

\* a batch of ten has been executed, and a list of eleven is refused
C15_Witness ==
    /\ Len(events) >= 10
    /\ \E caller \in Users :
           /\ hasProfile(caller)
           /\ batchCalculateSimilarityError(caller, Repeated("bob", 11)) = TooManyTargets
           /\ batchCalculateSimilarityError(caller, Repeated(ZeroAddress, 11))
                  = TooManyTargets
           /\ batchCalculateSimilarityError(caller, <<>>) = NoTargets

\* C16: a batch with a target that has no profile, is the caller, or is
\* already matched with the caller fails as a whole, with the reason of the
\* first such target, also when valid targets precede it; and the ledger is
\* only ever written by a batch all of whose targets are valid, which then
\* holds a record for each of them.
C16_BatchAllOrNothing ==
    /\ [](\A caller \in Users :
          \A targets \in {list \in BatchTargets : Len(list) \in 1..10} :
            (hasProfile(caller)
                 /\ \E i \in 1..Len(targets) : ~ValidTarget(caller, targets[i])) =>
                LET first == CHOOSE i \in 1..Len(targets) :
                                 /\ ~ValidTarget(caller, targets[i])
                                 /\ \A j \in 1..(i - 1) : ValidTarget(caller, targets[j])
                IN /\ batchCalculateSimilarityError(caller, targets) # OK
                   /\ batchCalculateSimilarityError(caller, targets)
                          = batchTargetError(caller, targets[first]))
    /\ [][nCalc' # nCalc =>
            \E caller \in Users, targets \in BatchTargets :
                /\ events' = batchLoop(caller, targets, 1, batchStart).events
                /\ Len(events') = Len(events) + Len(targets)
                /\ \A i \in 1..Len(targets) :
                       /\ ValidTarget(caller, targets[i])
                       /\ requestIdOf(caller, targets[i], blockNumber)
                              \in DOMAIN matchRequests']_vars

\* a list whose first target is valid and whose second is already matched
\* with the caller: the loop has stored the first record when it fails
C16_Witness ==
    \E caller \in Users, targets \in BatchTargets :
        /\ Len(targets) = 2
        /\ ValidTarget(caller, targets[1])
        /\ isAlreadyMatched(caller, targets[2])
        /\ batchLoop(caller, targets, 1, batchStart).matchRequests # matchRequests
        /\ batchCalculateSimilarityError(caller, targets) = AlreadyMatchedWithUser

\* C17: a successful batchCalculateSimilarity over n targets, 1 <= n <= 10,
\* returns n request ids, emits n SimilarityCalculated events in the order of
\* the targets, and its i-th id is that of a ledger record with requester =
\* caller and target = targets[i], which the i-th event carries.
C17_BatchReturnsIdsInOrder ==
    [][\A caller \in Users, targets \in BatchTargets :
         (nCalc' = nCalc + 1 /\ batchCalculateSimilarity(caller, targets)) =>
             LET ids == batchReturn(caller, targets)
                 n == Len(targets)
             IN /\ n \in 1..10
                /\ Len(ids) = n
                /\ Len(events') = Len(events) + n
                /\ SubSeq(events', 1, Len(events)) = events
                /\ \A i \in 1..n :
                       /\ ids[i] \in DOMAIN matchRequests'
                       /\ matchRequests'[ids[i]].requester = caller
                       /\ matchRequests'[ids[i]].target = targets[i]
                       /\ events'[Len(events) + i] =
                              SimilarityCalculated(caller, targets[i], ids[i])]_vars

\* one batch over two different targets has been executed
C17_Witness ==
    /\ nCalc = 1
    /\ Len(events) = 2
    /\ events[1].user1 = events[2].user1
    /\ events[1].user2 # events[2].user2
    /\ matchRequests[events[1].requestId].target = events[1].user2
    /\ matchRequests[events[2].requestId].target = events[2].user2

\* C19: every successful calculateSimilarity emits one SimilarityCalculated
\* event naming the caller, the target and a request id, and under that id the
\* ledger then holds a record with requester = caller, target = target,
\* processed = true, scoreDecrypted = false and matchDecrypted = false; the
\* pair named had passed the preconditions of the call.
C19_CalculationPersistsRecord ==
    [][nCalc' = nCalc + 1 =>
          /\ Len(events') = Len(events) + 1
          /\ SubSeq(events', 1, Len(events)) = events
          /\ LET event == events'[Len(events')]
             IN /\ event.name = "SimilarityCalculated"
                /\ calculateSimilarityError(event.user1, event.user2) = OK
                /\ event.requestId \in DOMAIN matchRequests'
                /\ matchRequests'[event.requestId].requester = event.user1
                /\ matchRequests'[event.requestId].target = event.user2
                /\ matchRequests'[event.requestId].processed
                /\ ~matchRequests'[event.requestId].scoreDecrypted
                /\ ~matchRequests'[event.requestId].matchDecrypted
                /\ \A requestId \in DOMAIN matchRequests \ {event.requestId} :
                       matchRequests'[requestId] = matchRequests[requestId]]_vars

\* bob has calculated his similarity with alice twice in one block: the second
\* record is on the ledger under the id both events carry, no half decrypted
C19_Witness ==
    /\ Len(events) = 2
    /\ events[1] = events[2]
    /\ events[2].user1 = "bob"
    /\ events[2].user2 = "alice"
    /\ matchRequests[events[2].requestId].requester = "bob"
    /\ matchRequests[events[2].requestId].processed
    /\ ~matchRequests[events[2].requestId].scoreDecrypted
    /\ ~matchRequests[events[2].requestId].matchDecrypted


\* C20: for every request id, a decrypted flag that is true stays true and
\* the plaintext it covers (decryptedScore, isMatch) keeps its value, in every
\* step, those of further calculateSimilarity calls for the same pair included.
C20_DecryptedIsFinal ==
    [][\A requestId \in DOMAIN matchRequests :
         /\ matchRequests[requestId].scoreDecrypted =>
                /\ matchRequests'[requestId].scoreDecrypted
                /\ matchRequests'[requestId].decryptedScore
                       = matchRequests[requestId].decryptedScore
         /\ matchRequests[requestId].matchDecrypted =>
                /\ matchRequests'[requestId].matchDecrypted
                /\ matchRequests'[requestId].isMatch
                       = matchRequests[requestId].isMatch]_vars

\* C21: the ledger is append-only: no step removes a request id, every
\* calculation stores its record under an id that was not in the ledger
\* before, and the record of an id already there keeps its requester, target,
\* timestamp and ciphertexts and has its decrypted flags only ever set.
C21_LedgerAppendOnly ==
    [][/\ DOMAIN matchRequests \subseteq DOMAIN matchRequests'
       /\ nCalc' = nCalc + 1 =>
              events'[Len(events')].requestId \notin DOMAIN matchRequests
       /\ \A requestId \in DOMAIN matchRequests :
              LET old == matchRequests[requestId]
                  new == matchRequests'[requestId]
              IN /\ new.requester = old.requester
                 /\ new.target = old.target
                 /\ new.timestamp = old.timestamp
                 /\ new.similarityScore = old.similarityScore
                 /\ new.isMatchEncrypted = old.isMatchEncrypted
                 /\ old.scoreDecrypted => new.scoreDecrypted
                 /\ old.matchDecrypted => new.matchDecrypted]_vars

\* the score half and the match half of a record, with their decryption tasks
scoreHalf(requests, tasks, requestId) ==
    <<requests[requestId].scoreDecrypted, requests[requestId].decryptedScore,
      tasks[requestId]["score"]>>

matchHalf(requests, tasks, requestId) ==
    <<requests[requestId].matchDecrypted, requests[requestId].isMatch,
      tasks[requestId]["match"]>>

\* C22: the two halves of a record progress independently: requesting a half
\* is accepted from a party whatever the state of the other half, finalizing
\* a delivered half is accepted whatever the state of the other half, and no
\* step other than a calculation changes both halves of a record (so a
\* request or a finalize of one half leaves the other half's flag, plaintext
\* and decryption task unchanged).
C22_HalvesIndependent ==
    /\ [](\A requestId \in DOMAIN matchRequests :
            LET request == matchRequests[requestId]
            IN /\ ~request.matchDecrypted =>
                     requestMatchDecryptionError(request.requester, requestId) = OK
               /\ ~request.scoreDecrypted =>
                     requestScoreDecryptionError(request.target, requestId) = OK
               /\ (~request.matchDecrypted /\ taskAt(requestId, "match") = "ready") =>
                     processMatchDecryptionError(request.target, requestId) = OK
               /\ (~request.scoreDecrypted /\ taskAt(requestId, "score") = "ready") =>
                     processScoreDecryptionError(request.requester, requestId) = OK)
    /\ [][nCalc' = nCalc =>
             \A requestId \in DOMAIN matchRequests :
                \/ scoreHalf(matchRequests', decryptTasks', requestId)
                      = scoreHalf(matchRequests, decryptTasks, requestId)
                \/ matchHalf(matchRequests', decryptTasks', requestId)
                      = matchHalf(matchRequests, decryptTasks, requestId)]_vars

\* the score half is decrypted while the match half was never requested
C22_Witness ==
    \E requestId \in DOMAIN matchRequests :
        /\ matchRequests[requestId].scoreDecrypted
        /\ ~matchRequests[requestId].matchDecrypted
        /\ taskAt(requestId, "match") = "none"

\* the scores two 8-bit bitmaps can have, each with its match outcome
Outcomes == {[score |-> s, isMatch |-> s >= MATCH_THRESHOLD] : s \in 0..8}

\* the ledger as it would be had the comparison `requestId` had `outcome`
withOutcome(requests, requestId, outcome) ==
    [requests EXCEPT
        ![requestId].decryptedScore = IF requests[requestId].scoreDecrypted
                                      THEN outcome.score ELSE @,
        ![requestId].isMatch = IF requests[requestId].matchDecrypted
                               THEN outcome.isMatch ELSE @]

\* C23: what getMatchRequest returns to an identity that is neither the
\* requester nor the target of a comparison is the same whatever the score
\* and the match outcome of that comparison are.
C23_ThirdPartyLearnsNothing ==
    \A requestId \in DOMAIN matchRequests :
        \A third \in Users \ parties(requestId) :
            \A outcome \in Outcomes :
                getMatchRequest(withOutcome(matchRequests, requestId, outcome),
                                third, requestId)
                    = getMatchRequest(matchRequests, third, requestId)

\* C24: a record whose score half is not decrypted has decryptedScore 0; a
\* record whose match half is not decrypted has isMatch false and has added
\* nothing to a match list: a match list grows only by the other party of a
\* record, in the step that sets that record's matchDecrypted with a true
\* outcome.
C24_UndecryptedIsDefault ==
    /\ [](\A requestId \in DOMAIN matchRequests :
            LET request == matchRequests[requestId]
            IN /\ ~request.scoreDecrypted => request.decryptedScore = 0
               /\ ~request.matchDecrypted => ~request.isMatch)
    /\ [][\A u \in Users :
            Len(profiles'[u].matches) > Len(profiles[u].matches) =>
                \E requestId \in DOMAIN matchRequests :
                    LET request == matchRequests'[requestId]
                        other == IF u = request.requester THEN request.target
                                 ELSE request.requester
                    IN /\ u \in parties(requestId)
                       /\ ~matchRequests[requestId].matchDecrypted
                       /\ request.matchDecrypted /\ request.isMatch
                       /\ profiles'[u].matches
                              = Append(profiles[u].matches, other)]_vars

\* both plaintexts of a matching pair are at the network, neither half is
\* finalized, and no match list has an entry
C24_Witness ==
    \E requestId \in DOMAIN matchRequests :
        /\ matchRequests[requestId].isMatchEncrypted
        /\ ~matchRequests[requestId].scoreDecrypted
        /\ ~matchRequests[requestId].matchDecrypted
        /\ taskAt(requestId, "score") = "ready"
        /\ taskAt(requestId, "match") = "ready"
        /\ \A u \in Users : profiles[u].matches = <<>>

\* C25: isAlreadyMatched is symmetric in its two arguments, and true
\* whenever the match list of either argument contains the other.
C25_AlreadyMatchedSymmetric ==
    \A a \in Users : \A b \in Users :
        /\ isAlreadyMatched(a, b) = isAlreadyMatched(b, a)
        /\ (\/ Occurrences(profiles[a].matches, b) > 0
            \/ Occurrences(profiles[b].matches, a) > 0) => isAlreadyMatched(a, b)

\* C26: a step in which the profile of x stops existing changes only the
\* profile of x and the participant index: the ledger, with the records that
\* name x, and the profile and match list of every other identity, with the
\* entries equal to x, are unchanged.
C26_DeleteTouchesOnlyOwnProfile ==
    [][\A x \in Users :
          (hasProfile(x) /\ ~hasProfile(x)') =>
              /\ matchRequests' = matchRequests
              /\ decryptTasks' = decryptTasks
              /\ \A y \in Users \ {x} : profiles'[y] = profiles[y]]_vars

\* x has deleted its profile; a ledger record names x and the match list of
\* its counterpart still holds x
C26_Witness ==
    \E requestId \in DOMAIN matchRequests :
        LET x == matchRequests[requestId].requester
            y == matchRequests[requestId].target
        IN /\ ~hasProfile(x)
           /\ matchRequests[requestId].isMatch
           /\ getMatchCount(y, y) = 1
           /\ isAlreadyMatched(y, x)

\* C27: under delivery and retry fairness, a half whose decryption has been
\* requested is eventually decrypted.
C27_RequestedLeadsToDecrypted ==
    \A requestId \in LedgerIds :
        /\ (taskAt(requestId, "match") = "requested")
               ~> matchRequestAt(requestId).matchDecrypted
        /\ (taskAt(requestId, "score") = "requested")
               ~> matchRequestAt(requestId).scoreDecrypted

\* C28: in the oracle variant every successful calculateAndMatch emits
\* MatchRequested(caller, target, requestId), and requestId is the key of the
\* record the call created for that caller and target.
C28_EmitsMatchRequested ==
    [][nCalc' = nCalc + 1 =>
          \E i \in (Len(events) + 1)..Len(events') :
              /\ events'[i].name = "MatchRequested"
              /\ events'[i].requestId \in DOMAIN matchRequests'
              /\ matchRequests'[events'[i].requestId].requester = events'[i].requester
              /\ matchRequests'[events'[i].requestId].target = events'[i].target]_vars

\* C29: once a comparison of two registered identities has had both of its
\* decryptions requested, and before any finalize call on it,
\* isAlreadyMatched(requester, target) is true.
C29_MatchedBeforeFinalize ==
    \A requestId \in DOMAIN matchRequests :
        LET request == matchRequests[requestId]
        IN (/\ hasProfile(request.requester) /\ hasProfile(request.target)
            /\ taskAt(requestId, "match") # "none"
            /\ taskAt(requestId, "score") # "none"
            /\ ~request.matchDecrypted /\ ~request.scoreDecrypted)
           => isAlreadyMatched(request.requester, request.target)

decryptedFlag(request, half) ==
    IF half = "match" THEN request.matchDecrypted ELSE request.scoreDecrypted

C32_NotFoundAndAlreadyDecrypted ==
    /\ \A requestId \in
             ({requestIdOf(requester, targetUser, blockNumber) :
                  requester \in Users, targetUser \in Registrants}
                  \cup {UnknownId}) \ DOMAIN matchRequests :
           \A caller \in Users :
              /\ requestMatchDecryptionError(caller, requestId) = NotFound
              /\ requestScoreDecryptionError(caller, requestId) = NotFound
              /\ processMatchDecryptionError(caller, requestId) = NotFound
              /\ processScoreDecryptionError(caller, requestId) = NotFound
    /\ \A requestId \in DOMAIN matchRequests : \A caller \in parties(requestId) :
           /\ matchRequests[requestId].matchDecrypted =>
                  /\ requestMatchDecryptionError(caller, requestId)
                         = MatchAlreadyDecrypted
                  /\ processMatchDecryptionError(caller, requestId)
                         = MatchAlreadyProcessed
           /\ matchRequests[requestId].scoreDecrypted =>
                  /\ requestScoreDecryptionError(caller, requestId)
                         = ScoreAlreadyDecrypted
                  /\ processScoreDecryptionError(caller, requestId)
                         = ScoreAlreadyProcessed

\* a record with both halves decrypted, beside ids that no calculation made
C32_Witness ==
    /\ \E requestId \in DOMAIN matchRequests :
           /\ matchRequests[requestId].matchDecrypted
           /\ matchRequests[requestId].scoreDecrypted
    /\ \E requestId \in LedgerIds : requestId \notin DOMAIN matchRequests

\* the names of the events of a sequence
eventNames(emitted) == {emitted[i].name : i \in 1..Len(emitted)}

OracleRequestIds ==
    {oracleRequestIdOf(sender, targetUser, number) :
        sender \in Users, targetUser \in Users, number \in 1..MaxBlock}
        \cup {UnknownId}

C35_ParticipantsCannotBeOracle ==
    \A sender \in Users : \A requestId \in DOMAIN matchRequests :
        handleMatchDecryptionError(sender, requestId) # OK

\* C36: for identities a and b that both hold a profile, b is in the match
\* list of a exactly if a is in the match list of b.
C36_LiveMatchListsSymmetric ==
    \A a \in Users : \A b \in Users :
        (hasProfile(a) /\ hasProfile(b)) =>
            ((Occurrences(profiles[a].matches, b) > 0)
                 <=> (Occurrences(profiles[b].matches, a) > 0))

\* C37: an identity that holds no profile has an empty match list.
C37_DeletedProfileHasNoMatches ==
    \A u \in Users : ~hasProfile(u) => profiles[u].matches = <<>>

\* C38: every entry b of the match list of a is backed by the ledger: some
\* record between a and b, in either direction, has matchDecrypted and
\* isMatch set.
C38_MatchEntriesBackedByLedger ==
    \A a \in Users : \A i \in 1..Len(profiles[a].matches) :
        \E requestId \in DOMAIN matchRequests :
            /\ parties(requestId) = {a, profiles[a].matches[i]}
            /\ matchRequests[requestId].matchDecrypted
            /\ matchRequests[requestId].isMatch

\* C39: no ledger record has its requester as its target and no identity is
\* in its own match list, the records of batchCalculateSimilarity included.
C39_NoSelfMatch ==
    /\ \A requestId \in DOMAIN matchRequests :
           matchRequests[requestId].requester # matchRequests[requestId].target
    /\ \A u \in Users : Occurrences(profiles[u].matches, u) = 0

\* a batch has stored a record whose finalize filled two match lists, and a
\* batch of the target that names the target itself is rejected
C39_Witness ==
    \E requestId \in DOMAIN matchRequests :
        LET requester == matchRequests[requestId].requester
            target == matchRequests[requestId].target
        IN /\ matchRequests[requestId].isMatch
           /\ isAlreadyMatched(requester, target)
           /\ isAlreadyMatched(target, requester)
           /\ \E other \in Users \ {requester, target} :
                  batchCalculateSimilarityError(target, <<other, target>>)
                      = SelfMatchForbidden

====
